---- MODULE Spec2Model ----
(***************************************************************************)
(* A model of pydocstringGenerator: the tree mapper (attach_parents,       *)
(* map_nodes), the metadata extractors (detect_raises, detect_yields), the *)
(* documentation synthesizer (build_docstring), the rewrite engine         *)
(* (insert_docstrings_into_code) and the style auditor (check_pep257).     *)
(*                                                                         *)
(* A source text is a sequence of lines.  A line is a record               *)
(*     [k |-> kind, ind |-> leading spaces, nm |-> text/name, ps |-> params]*)
(* whose text is ind spaces followed by what the kind renders:             *)
(*     def    "def nm(ps):"          class  "class nm:"                    *)
(*     if     "if nm:"               stmt   a simple statement             *)
(*     doc1   a one-line string expression statement                       *)
(*     dopen  three quotes and nm    (first line of a multi-line string)   *)
(*     dtext  nm                     (a line inside a multi-line string)   *)
(*     dclose three quotes           (last line of a multi-line string)    *)
(*     raise  "raise <expr>", nm the name, ps[1] the shape of <expr>       *)
(*     yield  "yield nm"                                                   *)
(* code.split("\n") and "\n".join(new_lines) are inverse on such lines, so *)
(* a text and its list of lines are the same value.                        *)
(***************************************************************************)
EXTENDS Integers, Sequences, FiniteSets, TLC

\* ------------------------------------------------------------ bounds
\* The longest source unit after its leading statements, in lines.
MaxLines == 4
\* The most simple statements put ahead of the first declaration.
MaxPad == 14
\* The longest text given to the tree mapper alone, in lines.
MaxMapLines == 6
\* The longest text whose declarations are given to the metadata extractors.
MaxXLines == 4

\* The width of one nesting level: the 4 of " " * (indent + 4).  The inputs are
\* indented by as much.
Step == 4

Line(k, ind, nm, ps) == [k |-> k, ind |-> ind, nm |-> nm, ps |-> ps]

IsHeader(l) == l.k \in {"def", "class", "if"}

\* ------------------------------------------------------------ ast.parse
\* The parser's state while it reads lines: the stack of open blocks (the
\* indentation and the header line of each; line 0 is the Module), the header
\* whose block must start on the next line (0: none), the line where an open
\* multi-line string began (0: none), and for each line read so far the header
\* of the block the statement stands in (-1: not a statement of its own).
ParseInit ==
    [ok |-> TRUE, stack |-> << [ind |-> 0, hdr |-> 0] >>, need |-> 0, instr |-> 0,
     encl |-> << >>]

RECURSIVE PopTo(_, _)
PopTo(stack, d) ==
    IF Len(stack) > 1 /\ stack[Len(stack)].ind > d
    THEN PopTo(SubSeq(stack, 1, Len(stack) - 1), d)
    ELSE stack

\* One line read by the tokenizer and the statement grammar.
ParseLine(st, l, i) ==
    IF ~st.ok THEN st
    ELSE IF st.instr # 0 THEN
        IF l.k = "dclose" THEN [st EXCEPT !.instr = 0, !.encl = Append(@, -1)]
        ELSE IF l.k = "dtext" THEN [st EXCEPT !.encl = Append(@, -1)]
        ELSE [st EXCEPT !.ok = FALSE]
    ELSE IF l.k \in {"dtext", "dclose"} THEN [st EXCEPT !.ok = FALSE]
    ELSE
        LET top == st.stack[Len(st.stack)].ind
            opened == Append(st.stack, [ind |-> l.ind, hdr |-> st.need])
            closed == PopTo(st.stack, l.ind)
            good == IF st.need # 0 THEN l.ind > top
                    ELSE l.ind <= top /\ closed[Len(closed)].ind = l.ind
            stack == IF st.need # 0 THEN opened ELSE closed
        IN  IF ~good THEN [st EXCEPT !.ok = FALSE]
            ELSE [ok |-> TRUE,
                  stack |-> stack,
                  need |-> IF IsHeader(l) THEN i ELSE 0,
                  instr |-> IF l.k = "dopen" THEN i ELSE 0,
                  encl |-> Append(st.encl, stack[Len(stack)].hdr)]

RECURSIVE ParseFrom(_, _, _)
ParseFrom(text, i, st) ==
    IF i > Len(text) THEN st
    ELSE ParseFrom(text, i + 1, ParseLine(st, text[i], i))

Scan(text) == ParseFrom(text, 1, ParseInit)

\* The text is a complete module: no error, no header left without a block, no
\* string left open.
Parses(text) == LET st == Scan(text) IN st.ok /\ st.need = 0 /\ st.instr = 0

RECURSIVE EndOfString(_, _)
EndOfString(text, i) ==
    IF i >= Len(text) \/ text[i].k = "dclose" THEN i ELSE EndOfString(text, i + 1)

\* The statements of the block of header n, in order.
RECURSIVE BodyFrom(_, _, _)
BodyFrom(encl, n, i) ==
    IF i > Len(encl) THEN << >>
    ELSE IF encl[i] = n THEN << i >> \o BodyFrom(encl, n, i + 1)
    ELSE BodyFrom(encl, n, i + 1)

\* ast.parse(code): a SyntaxError, or the tree.  Node 0 is the Module and node
\* i the statement that starts on line i (lineno = i); body[n] lists the
\* statements of n's block, end_lineno[i] is the statement's last line, and
\* parent[i] is the node's parent attribute (-1: the attribute is not set).
Parse(text) ==
    IF ~Parses(text) THEN [ok |-> FALSE]
    ELSE LET encl == Scan(text).encl
         IN [ok |-> TRUE,
             text |-> text,
             parent |-> [i \in 1..Len(text) |-> -1],
             body |-> [n \in 0..Len(text) |-> BodyFrom(encl, n, 1)],
             end_lineno |-> [i \in 1..Len(text) |->
                               IF text[i].k = "dopen" THEN EndOfString(text, i) ELSE i]]

\* The node's type, as isinstance sees it.
NodeType(tree, n) ==
    IF n = 0 THEN "Module"
    ELSE CASE tree.text[n].k = "def" -> "FunctionDef"
           [] tree.text[n].k = "class" -> "ClassDef"
           [] tree.text[n].k = "if" -> "If"
           [] tree.text[n].k = "raise" -> "Raise"
           [] tree.text[n].k \in {"doc1", "dopen", "yield"} -> "Expr"
           [] OTHER -> "Pass"

\* ------------------------------------------------------------ inputs
DeclLetters ==
    {Line("def", 0, "f", << "a", "b" >>),
     Line("def", Step, "go", << >>),
     Line("class", 0, "C", << >>)}

BodyLetters ==
    {Line("stmt", d, "pass", << >>) : d \in {Step, 2 * Step}}
    \cup {Line("doc1", d, "doc", << >>) : d \in {Step, 2 * Step}}
    \cup {Line("dopen", Step, "Old.", << >>), Line("dclose", Step, "", << >>)}

\* The texts for the tree mapper alone nest declarations in classes, functions
\* and if blocks.
MapLetters ==
    {Line("def", d, "go", << >>) : d \in {0, Step, 2 * Step}}
    \cup {Line("class", d, "C", << >>) : d \in {0, Step}}
    \cup {Line("if", Step, "x", << >>)}
    \cup {Line("stmt", d, "pass", << >>) : d \in {Step, 2 * Step, 3 * Step}}

\* The shapes of the expression of a raise statement: none (a re-raise), a
\* name, a call of a name, an attribute, a call of an attribute.
Shapes == {"bare", "name", "call", "attr", "attrcall"}

XLetters ==
    {Line("def", 0, "f", << >>), Line("def", Step, "go", << >>),
     Line("if", Step, "x", << >>), Line("stmt", Step, "pass", << >>)}
    \cup {Line("raise", Step, "A", << sh >>) : sh \in Shapes}
    \cup {Line("raise", 2 * Step, "B", << sh >>) : sh \in {"name", "call"}}
    \cup {Line("yield", d, "1", << >>) : d \in {Step, 2 * Step}}

\* The inputs are laid out the usual way: a block is indented one Step below
\* its header, a docstring is the first statement of a declaration, and a
\* two-line one is closed on the line after it opens.
DocPlaced(t, l) ==
    LET n == Len(t) IN
    /\ n > 0 /\ IsHeader(t[n]) => l.ind = t[n].ind + Step
    /\ l.k \in {"doc1", "dopen"} => n > 0 /\ t[n].k \in {"def", "class"}
    /\ (l.k = "dclose") = (n > 0 /\ t[n].k = "dopen")
    /\ l.k = "dclose" => l.ind = t[n].ind

RECURSIVE Prefixes(_, _)
Prefixes(letters, n) ==
    IF n = 0 THEN { << >> }
    ELSE LET P == Prefixes(letters, n - 1)
         IN P \cup UNION {{Append(t, l) : l \in {x \in letters :
                                                   DocPlaced(t, x) /\ Scan(Append(t, x)).ok}} :
                          t \in {p \in P : Len(p) = n - 1}}

Pad(k) == [i \in 1..k |-> Line("stmt", 0, "pass", << >>)]

HasDecl(t) == \E i \in 1..Len(t) : t[i].k \in {"def", "class"}

\* The source units: some simple statements, then lines that parse and hold a
\* declaration.
Bodies ==
    {t \in Prefixes(DeclLetters \cup BodyLetters, MaxLines) :
        Parses(t) /\ HasDecl(t) /\ t[1].k # "stmt"}

\* ------------------------------------------------------------ Tree Mapper
Min(a, b) == IF a < b THEN a ELSE b
Max(a, b) == IF a > b THEN a ELSE b

\* ast.iter_child_nodes(node), as far as statements go.
Children(tree, n) == tree.body[n]

\* ast.walk(node): breadth first, from a queue.
RECURSIVE WalkQ(_, _)
WalkQ(tree, todo) ==
    IF todo = << >> THEN << >>
    ELSE << Head(todo) >> \o WalkQ(tree, Tail(todo) \o Children(tree, Head(todo)))

Walk(tree, n) == WalkQ(tree, << n >>)

RECURSIVE SetParents(_, _, _)
SetParents(parent, kids, n) ==
    IF kids = << >> THEN parent
    ELSE SetParents([parent EXCEPT ![Head(kids)] = n], Tail(kids), n)

RECURSIVE AttachFrom(_, _, _)
AttachFrom(tree, order, parent) ==
    IF order = << >> THEN parent
    ELSE AttachFrom(tree, Tail(order),
                    SetParents(parent, Children(tree, Head(order)), Head(order)))

attach_parents(tree) ==
    [tree EXCEPT !.parent = AttachFrom(tree, Walk(tree, 0), tree.parent)]

extract_parameters(tree, n) ==
    IF NodeType(tree, n) = "FunctionDef" THEN tree.text[n].ps ELSE << >>

\* ast.get_docstring(node) is not None: the first statement of the body is a
\* string expression.
HasDocstring(tree, n) ==
    /\ tree.body[n] # << >>
    /\ tree.text[tree.body[n][1]].k \in {"doc1", "dopen"}

FunctionEntry(tree, n) ==
    [node |-> n, name |-> tree.text[n].nm, params |-> extract_parameters(tree, n),
     has_doc |-> HasDocstring(tree, n), methods |-> << >>]

RECURSIVE MethodsOf(_, _)
MethodsOf(tree, items) ==
    IF items = << >> THEN << >>
    ELSE (IF NodeType(tree, Head(items)) = "FunctionDef"
          THEN << FunctionEntry(tree, Head(items)) >> ELSE << >>)
         \o MethodsOf(tree, Tail(items))

ClassEntry(tree, n) ==
    [node |-> n, name |-> tree.text[n].nm, params |-> << >>,
     has_doc |-> HasDocstring(tree, n), methods |-> MethodsOf(tree, tree.body[n])]

\* getattr(node, "parent", None) is a ClassDef.
ParentIsClass(tree, n) ==
    tree.parent[n] >= 0 /\ NodeType(tree, tree.parent[n]) = "ClassDef"

\* The test of map_nodes without its look at the parent.
IsFreeFunction_AnyParent(tree, n) == NodeType(tree, n) = "FunctionDef"

IsFreeFunction(tree, n) ==
    NodeType(tree, n) = "FunctionDef" /\ ~ParentIsClass(tree, n)

RECURSIVE MapFrom(_, _, _)
MapFrom(tree, order, node_map) ==
    IF order = << >> THEN node_map
    ELSE LET n == Head(order)
             fs == IF IsFreeFunction(tree, n)
                   THEN Append(node_map.functions, FunctionEntry(tree, n))
                   ELSE node_map.functions
             cs == IF NodeType(tree, n) = "ClassDef"
                   THEN Append(node_map.classes, ClassEntry(tree, n))
                   ELSE node_map.classes
         IN MapFrom(tree, Tail(order), [functions |-> fs, classes |-> cs])

map_nodes(tree) ==
    MapFrom(tree, Walk(tree, 0), [functions |-> << >>, classes |-> << >>])

EmptyMap == [functions |-> << >>, classes |-> << >>]

\* ------------------------------------------------------------ Synthesizer
\* str.capitalize() on the names the inputs use.
Capitalize(name) ==
    CASE name = "f" -> "F"
      [] name = "go" -> "Go"
      [] name = "C" -> "C"
      [] OTHER -> name

Blank == Line("dtext", 0, "", << >>)
Text(ind, txt) == Line("dtext", ind, txt, << >>)
Open(name) == Line("dopen", 0, Capitalize(name) \o ".", << >>)
Close == Line("dclose", 0, "", << >>)

RECURSIVE GoogleParams(_)
GoogleParams(params) ==
    IF params = << >> THEN << >>
    ELSE << Text(4, Head(params) \o ": Description.") >> \o GoogleParams(Tail(params))

\* The lines of the returned string, doc.split("\n").
generate_docstring_google(name, params) ==
    << Open(name), Blank, Text(0, "Args:") >>
    \o (IF params # << >> THEN GoogleParams(params) ELSE << Text(4, "None") >>)
    \o << Text(0, "Returns:"), Text(4, "Description."), Close >>

RECURSIVE NumpyParams(_)
NumpyParams(params) ==
    IF params = << >> THEN << >>
    ELSE << Text(0, Head(params) \o " : type"), Text(4, "Description.") >>
         \o NumpyParams(Tail(params))

generate_docstring_numpy(name, params) ==
    << Open(name), Blank, Text(0, "Parameters"), Text(0, "----------") >>
    \o (IF params # << >> THEN NumpyParams(params) ELSE << Text(0, "None") >>)
    \o << Blank, Text(0, "Returns"), Text(0, "-------"), Text(0, "type"),
          Text(4, "Description."), Close >>

RECURSIVE RestParams(_)
RestParams(params) ==
    IF params = << >> THEN << >>
    ELSE << Text(0, ":param " \o Head(params) \o ": Description.") >>
         \o RestParams(Tail(params))

generate_docstring_rest(name, params) ==
    << Open(name), Blank >>
    \o (IF params # << >> THEN RestParams(params) ELSE << Blank >>)
    \o << Blank, Text(0, ":returns: Description."), Close >>

build_docstring(format_type, name, params) ==
    IF format_type = "Google" THEN generate_docstring_google(name, params)
    ELSE IF format_type = "NumPy" THEN generate_docstring_numpy(name, params)
    ELSE generate_docstring_rest(name, params)

\* ------------------------------------------------------------ Rewrite Engine
RECURSIVE ParamsLen(_)
ParamsLen(params) ==
    IF params = << >> THEN 0
    ELSE Len(Head(params)) + (IF Len(params) > 1 THEN 2 ELSE 0) + ParamsLen(Tail(params))

\* len(line): the leading spaces and what the kind renders.
LineLen(l) ==
    l.ind + (CASE l.k = "def" -> 4 + Len(l.nm) + 1 + ParamsLen(l.ps) + 2
               [] l.k = "class" -> 6 + Len(l.nm) + 1
               [] l.k = "if" -> 3 + Len(l.nm) + 1
               [] l.k = "doc1" -> 3 + Len(l.nm) + 3
               [] l.k = "dopen" -> 3 + Len(l.nm)
               [] l.k = "dclose" -> 3
               [] OTHER -> Len(l.nm))

\* One character of a line, as a string of length one: a space, or one of the
\* characters after the leading spaces.
CharOf(l, i) == IF i < l.ind THEN Text(1, "") ELSE Text(0, "c")

\* lines[i], where lines is the list of the code's lines or, once the loop
\*     for lines in reversed(doc_lines)
\* has run, the string it was last bound to.
Subscript(lines, i) ==
    IF lines.isstr
    THEN IF i < LineLen(lines.str) THEN [ok |-> TRUE, val |-> CharOf(lines.str, i)]
         ELSE [ok |-> FALSE]
    ELSE IF i < Len(lines.list) THEN [ok |-> TRUE, val |-> lines.list[i + 1]]
         ELSE [ok |-> FALSE]

\* len(def_line) - len(def_line.lstrip(" "))
LeadingSpaces(l) == l.ind

AsList(text) == [isstr |-> FALSE, list |-> text, str |-> Blank]
AsStr(l) == [isstr |-> TRUE, list |-> << >>, str |-> l]

RECURSIVE ClassItems(_)
ClassItems(classes) ==
    IF classes = << >> THEN << >>
    ELSE << Head(classes) >> \o Head(classes).methods \o ClassItems(Tail(classes))

Flatten(node_map) == node_map.functions \o ClassItems(node_map.classes)

\* sorted(..., reverse=True) keeps the order of items with equal keys.
RECURSIVE InsertByLineno(_, _)
InsertByLineno(sorted, e) ==
    IF sorted = << >> THEN << e >>
    ELSE IF Head(sorted).node >= e.node
         THEN << Head(sorted) >> \o InsertByLineno(Tail(sorted), e)
         ELSE << e >> \o sorted

\* The sort without reverse=True.
RECURSIVE InsertAscending(_, _)
InsertAscending(sorted, e) ==
    IF sorted = << >> THEN << e >>
    ELSE IF Head(sorted).node <= e.node
         THEN << Head(sorted) >> \o InsertAscending(Tail(sorted), e)
         ELSE << e >> \o sorted

RECURSIVE SortedByLinenoAsc(_)
SortedByLinenoAsc(items) ==
    IF items = << >> THEN << >>
    ELSE InsertAscending(SortedByLinenoAsc(SubSeq(items, 1, Len(items) - 1)),
                         items[Len(items)])

RECURSIVE SortedByLinenoDesc(_)
SortedByLinenoDesc(items) ==
    IF items = << >> THEN << >>
    ELSE InsertByLineno(SortedByLinenoDesc(SubSeq(items, 1, Len(items) - 1)),
                        items[Len(items)])

IsBlank(l) == l.k = "dtext" /\ l.nm = ""

RECURSIVE StripFirst(_)
StripFirst(doc) ==
    IF doc # << >> /\ IsBlank(Head(doc)) THEN StripFirst(Tail(doc)) ELSE doc

RECURSIVE StripLast(_)
StripLast(doc) ==
    IF doc # << >> /\ IsBlank(doc[Len(doc)])
    THEN StripLast(SubSeq(doc, 1, Len(doc) - 1)) ELSE doc

\* " " * (indent + 4) + line, for every line of the block.
Indented(doc, indent) ==
    [i \in 1..Len(doc) |-> [doc[i] EXCEPT !.ind = @ + indent + Step]]

\* del s[a:b]
DelSlice(s, a, b) ==
    LET lo == Min(a, Len(s))
        hi == Min(Max(a, b), Len(s))
    IN SubSeq(s, 1, lo) \o SubSeq(s, hi + 1, Len(s))

\* s.insert(i, x)
ListInsert(s, i, x) ==
    LET at == Min(i, Len(s)) IN SubSeq(s, 1, at) \o << x >> \o SubSeq(s, at + 1, Len(s))

\* for lines in reversed(doc_lines): new_lines.insert(insertion_index, lines)
RECURSIVE InsertReversed(_, _, _)
InsertReversed(s, i, doc) ==
    IF doc = << >> THEN s
    ELSE InsertReversed(ListInsert(s, i, doc[Len(doc)]), i, SubSeq(doc, 1, Len(doc) - 1))

\* isinstance(first_stmt, ast.Expr) and isinstance(first_stmt.value, ast.Str)
IsStrExpr(tr, n) == tr.text[n].k \in {"doc1", "dopen"}

NoTree == [ok |-> FALSE]
NoItem == [node |-> 0, name |-> "", params |-> << >>, has_doc |-> FALSE, methods |-> << >>]

\* ------------------------------------------------------------ the state
VARIABLES
    call,             \* the function of the library the caller uses
    source,           \* the text the caller starts from
    format_type, mode,
    pass,             \* 1, and 2 when the caller runs the result through again
    pc,
    code,             \* insert_docstrings_into_code's argument
    tree,             \* the tree the node map's nodes belong to
    node_map,
    lines, new_lines, all_nodes,
    idx,              \* the place of the for loop in all_nodes
    item, indent, doc_lines, insertion_index,    \* the loop's locals
    result,           \* what the call returned
    xnode,            \* the node given to a metadata extractor
    tmp_exists        \* check_pep257's temporary file is on disk

vars == << call, source, format_type, mode, pass, pc, code, tree, node_map, lines,
           new_lines, all_nodes, idx, item, indent, doc_lines, insertion_index,
           result, xnode, tmp_exists >>

rewriter == << code, tree, node_map, lines, new_lines, all_nodes, idx, item, indent,
               doc_lines, insertion_index >>

inputs == << call, source, format_type, mode, xnode >>

Units == {Pad(k) \o t : k \in 0..MaxPad, t \in Bodies}

MapUnits == {t \in Prefixes(MapLetters, MaxMapLines) : Parses(t) /\ HasDecl(t)}

XUnits == {t \in Prefixes(XLetters, MaxXLines) : Parses(t) /\ HasDecl(t)}

InitRewriter ==
    /\ code = << >> /\ tree = NoTree /\ node_map = EmptyMap
    /\ lines = AsList(<< >>) /\ new_lines = << >> /\ all_nodes = << >>
    /\ idx = 0 /\ item = NoItem /\ indent = 0 /\ doc_lines = << >>
    /\ insertion_index = 0

InitInsert ==
    /\ call = "insert_docstrings_into_code"
    /\ source \in Units
    /\ format_type \in {"Google", "NumPy", "reST"}
    /\ mode \in {"missing", "rewrite"}
    /\ xnode = 0

\* ------------------------------------------------------------ the caller
\* tree = ast.parse(text); attach_parents(tree); node_map = map_nodes(tree);
\* then the call insert_docstrings_into_code(text, node_map, format_type, mode)
\* up to the loop: the split, the copy, the flattening and the sort.
MapAndCall(text) ==
    LET tr == Parse(text) IN
    IF ~tr.ok
    THEN /\ pc' = "SyntaxError"
         /\ UNCHANGED rewriter
    ELSE LET t == attach_parents(tr)
             m == map_nodes(t)
         IN /\ pc' = "loop"
            /\ code' = text
            /\ tree' = t
            /\ node_map' = m
            /\ lines' = AsList(text)
            /\ new_lines' = text
            /\ all_nodes' = SortedByLinenoDesc(Flatten(m))
            /\ idx' = 1
            /\ UNCHANGED << item, indent, doc_lines, insertion_index >>

FirstPass ==
    /\ call = "insert_docstrings_into_code" /\ pc = "call"
    /\ MapAndCall(source)
    /\ UNCHANGED << inputs, pass, result, tmp_exists >>

\* The fill-missing result is parsed, mapped and filled again.
SecondPass ==
    /\ call = "insert_docstrings_into_code" /\ pc = "done"
    /\ pass = 1 /\ mode = "missing"
    /\ pass' = 2
    /\ MapAndCall(result)
    /\ UNCHANGED << inputs, result, tmp_exists >>

\* ------------------------------------------------------------ the loop body
Looping == call = "insert_docstrings_into_code" /\ pc = "loop" /\ idx <= Len(all_nodes)

Skipped(it) == mode = "missing" /\ it.has_doc

\* if mode == "missing" and has_doc: continue
LoopSkip ==
    /\ Looping
    /\ Skipped(all_nodes[idx])
    /\ item' = all_nodes[idx]
    /\ idx' = idx + 1
    /\ UNCHANGED << inputs, pass, pc, code, tree, node_map, lines, new_lines, all_nodes,
                    indent, doc_lines, insertion_index, result, tmp_exists >>

\* def_line = lines[node.lineno - 1] raises IndexError, which leaves the call.
LoopIndexError ==
    /\ Looping
    /\ ~Skipped(all_nodes[idx])
    /\ ~Subscript(lines, all_nodes[idx].node - 1).ok
    /\ item' = all_nodes[idx]
    /\ pc' = "IndexError"
    /\ UNCHANGED << inputs, pass, code, tree, node_map, lines, new_lines, all_nodes, idx,
                    indent, doc_lines, insertion_index, result, tmp_exists >>

\* The start and the end of the slice that is deleted before the block goes in.
DocSpan(tr, it) ==
    LET first_stmt == tr.body[it.node][1]
    IN [start |-> first_stmt - 1, end |-> tr.end_lineno[first_stmt]]

Replaces(tr, it) == it.has_doc /\ IsStrExpr(tr, tr.body[it.node][1])

LoopRewrite ==
    /\ Looping
    /\ ~Skipped(all_nodes[idx])
    /\ Subscript(lines, all_nodes[idx].node - 1).ok
    /\ LET it == all_nodes[idx]
           doc == build_docstring(format_type, it.name, it.params)
           def_line == Subscript(lines, it.node - 1).val
           ind == LeadingSpaces(def_line)
           block == Indented(StripLast(StripFirst(doc)), ind)
           span == DocSpan(tree, it)
           kept == IF Replaces(tree, it) THEN DelSlice(new_lines, span.start, span.end)
                   ELSE new_lines
           at == IF Replaces(tree, it) THEN span.start ELSE it.node
       IN /\ item' = it
          /\ indent' = ind
          /\ doc_lines' = block
          /\ insertion_index' = at
          /\ new_lines' = InsertReversed(kept, at, block)
          /\ lines' = IF block = << >> THEN lines ELSE AsStr(block[1])
          /\ idx' = idx + 1
    /\ UNCHANGED << inputs, pass, pc, code, tree, node_map, all_nodes, result, tmp_exists >>

\* return "\n".join(new_lines)
Return ==
    /\ call = "insert_docstrings_into_code" /\ pc = "loop" /\ idx > Len(all_nodes)
    /\ result' = new_lines
    /\ pc' = "done"
    /\ UNCHANGED << inputs, pass, rewriter, tmp_exists >>

\* ------------------------------------------------------------ Tree Mapper alone
InitMap ==
    /\ call = "map_nodes"
    /\ source \in MapUnits
    /\ format_type = "Google" /\ mode = "missing" /\ xnode = 0

\* tree = ast.parse(text); attach_parents(tree); node_map = map_nodes(tree)
MapOnly ==
    /\ call = "map_nodes" /\ pc = "call"
    /\ LET t == attach_parents(Parse(source))
       IN /\ tree' = t
          /\ node_map' = map_nodes(t)
    /\ pc' = "done"
    /\ UNCHANGED << inputs, pass, code, lines, new_lines, all_nodes, idx, item, indent,
                    doc_lines, insertion_index, result, tmp_exists >>

\* ------------------------------------------------------------ Metadata Extractors
\* The loop of detect_raises over the nodes ast.walk yields; n.exc.func.id
\* raises AttributeError when the callee is not a Name.
RECURSIVE RaisesFrom(_, _, _)
RaisesFrom(tr, order, raises) ==
    IF order = << >> THEN [ok |-> TRUE, val |-> raises]
    ELSE LET l == tr.text[Head(order)]
             sh == IF Head(order) > 0 /\ l.k = "raise" THEN l.ps[1] ELSE "bare"
         IN IF sh = "attrcall" THEN [ok |-> FALSE]
            ELSE RaisesFrom(tr, Tail(order),
                            IF sh \in {"call", "name"} THEN Append(raises, l.nm) ELSE raises)

detect_raises(tr, n) == RaisesFrom(tr, Walk(tr, n), << >>)

\* A yield statement is an Expr whose value, a node of the walk, is a Yield.
detect_yields(tr, n) ==
    \E i \in 1..Len(Walk(tr, n)) :
        Walk(tr, n)[i] > 0 /\ tr.text[Walk(tr, n)[i]].k = "yield"

InitExtract ==
    /\ call \in {"detect_raises", "detect_yields"}
    /\ source \in XUnits
    /\ xnode \in {i \in 1..Len(source) : source[i].k = "def"}
    /\ format_type = "Google" /\ mode = "missing"

DetectRaises ==
    /\ call = "detect_raises" /\ pc = "call"
    /\ LET t == attach_parents(Parse(source))
           r == detect_raises(t, xnode)
       IN /\ tree' = t
          /\ IF r.ok THEN pc' = "done" /\ result' = r.val
             ELSE pc' = "AttributeError" /\ UNCHANGED result
    /\ UNCHANGED << inputs, pass, code, node_map, lines, new_lines, all_nodes, idx, item,
                    indent, doc_lines, insertion_index, tmp_exists >>

DetectYields ==
    /\ call = "detect_yields" /\ pc = "call"
    /\ LET t == attach_parents(Parse(source))
       IN /\ tree' = t
          /\ result' = detect_yields(t, xnode)
    /\ pc' = "done"
    /\ UNCHANGED << inputs, pass, code, node_map, lines, new_lines, all_nodes, idx, item,
                    indent, doc_lines, insertion_index, tmp_exists >>

\* ------------------------------------------------------------ Style Auditor
InitAudit ==
    /\ call = "check_pep257"
    /\ source \in Bodies
    /\ format_type = "Google" /\ mode = "missing" /\ xnode = 0

\* with tempfile.NamedTemporaryFile(delete=False, ...) as tmp: tmp.write(code)
WriteTemp ==
    /\ call = "check_pep257" /\ pc = "call"
    /\ tmp_exists' = TRUE
    /\ pc' = "checking"
    /\ UNCHANGED << inputs, pass, rewriter, result >>

\* violations = list(pydocstyle.check([tmp_path])): the checker's findings
CheckReturns ==
    /\ call = "check_pep257" /\ pc = "checking"
    /\ \E violations \in {<< >>, << "D100" >>, << "D100", "D103" >>} : result' = violations
    /\ pc' = "checked"
    /\ UNCHANGED << inputs, pass, rewriter, tmp_exists >>

\* ... or the checker raises, and the exception leaves check_pep257
CheckRaises ==
    /\ call = "check_pep257" /\ pc = "checking"
    /\ pc' = "raised"
    /\ UNCHANGED << inputs, pass, rewriter, result, tmp_exists >>

\* os.remove(tmp_path); return violations
RemoveTemp ==
    /\ call = "check_pep257" /\ pc = "checked"
    /\ tmp_exists' = FALSE
    /\ pc' = "done"
    /\ UNCHANGED << inputs, pass, rewriter, result >>

\* ------------------------------------------------------------ the specification
Init ==
    /\ InitInsert \/ InitMap \/ InitExtract \/ InitAudit
    /\ InitRewriter
    /\ pass = 1 /\ pc = "call" /\ result = << >> /\ tmp_exists = FALSE

Next ==
    \/ FirstPass \/ SecondPass \/ LoopSkip \/ LoopIndexError \/ LoopRewrite \/ Return
    \/ MapOnly \/ DetectRaises \/ DetectYields
    \/ WriteTemp \/ CheckReturns \/ CheckRaises \/ RemoveTemp

Spec == Init /\ [][Next]_vars

\* ------------------------------------------------------------ the claims
Inserting == call = "insert_docstrings_into_code"

IsDocLine(l) == l.k \in {"doc1", "dopen", "dtext", "dclose"}

NoDocs(text) == \A i \in 1..Len(text) : ~IsDocLine(text[i])

\* The inventory the Tree Mapper builds of a text.
Inventory(text) == map_nodes(attach_parents(Parse(text)))

AllDocumented(text) ==
    /\ Parse(text).ok
    /\ \A i \in 1..Len(Flatten(Inventory(text))) : Flatten(Inventory(text))[i].has_doc

\* C1: when fill-missing has run on a unit that holds no docstring, the call
\* has returned a text that parses and whose inventory has has_doc = true in
\* every function, class and method entry.
C1_FillMissingDocumentsEveryEntry ==
    (Inserting /\ mode = "missing" /\ pass = 1 /\ NoDocs(source)
       /\ pc \in {"done", "IndexError"})
    => (pc = "done" /\ AllDocumented(result))

\* C2: fill-missing is idempotent: both passes return, the first result parses,
\* and the second pass returns its input unchanged.
C2_FillMissingIdempotent ==
    (Inserting /\ mode = "missing")
    => /\ pc \notin {"IndexError", "SyntaxError"}
       /\ (pass = 2 /\ pc = "done") => result = code

RECURSIVE SelectLines(_, _)
SelectLines(text, keep) ==
    IF text = << >> THEN << >>
    ELSE (IF Head(text).k \in keep THEN << Head(text) >> ELSE << >>)
         \o SelectLines(Tail(text), keep)

CodeLines(text) == SelectLines(text, {"def", "class", "if", "stmt"})

\* Each declaration header of the text is followed by one synthesized block,
\* and the statement after the block is no docstring.
OneBlockEach(text) ==
    /\ \A i \in 1..Len(text) :
         text[i].k \in {"def", "class"}
         => /\ i < Len(text) /\ text[i + 1].k = "dopen"
            /\ text[EndOfString(text, i + 1)].k = "dclose"
            /\ EndOfString(text, i + 1) < Len(text)
               => ~IsDocLine(text[EndOfString(text, i + 1) + 1])
    /\ Len(SelectLines(text, {"dopen"})) = Len(SelectLines(text, {"def", "class"}))
    /\ SelectLines(text, {"doc1"}) = << >>

ReplacedInPlace == CodeLines(result) = CodeLines(code) /\ OneBlockEach(result)

\* C3: in replace-all mode every entry that carries a docstring has it removed
\* and the new block put in its place: the call returns, the result holds one
\* block per declaration, and the other lines are kept in their order.
C3_RewriteReplacesInPlace ==
    (Inserting /\ mode = "rewrite")
    => /\ pc # "IndexError"
       /\ pc = "done" => ReplacedInPlace

\* C4: in every terminal state of check_pep257, returned or raised, the
\* temporary file no longer exists.
C4_TempFileRemovedOnEveryExit ==
    (call = "check_pep257" /\ pc \in {"done", "raised"}) => ~tmp_exists

\* The function definition a statement belongs to (0: none).
RECURSIVE EnclosingFunction(_, _)
EnclosingFunction(tr, n) ==
    LET p == tr.parent[n]
    IN IF p <= 0 THEN 0
       ELSE IF NodeType(tr, p) = "FunctionDef" THEN p
       ELSE EnclosingFunction(tr, p)

YieldsItself(tr, n) ==
    \E y \in 1..Len(tr.text) : tr.text[y].k = "yield" /\ EnclosingFunction(tr, y) = n

\* C5: detect_yields(node) is true exactly when the declaration itself holds a
\* yield, at any block depth, and not when only a nested function does.
C5_YieldsOfTheDeclarationItself ==
    (call = "detect_yields" /\ pc = "done") => (result = YieldsItself(tree, xnode))

InSubtree(tr, n) == {Walk(tr, n)[i] : i \in 1..Len(Walk(tr, n))}

Named(l) == l.k = "raise" /\ l.ps[1] \in {"name", "call"}

RECURSIVE RaisesInTextOrder(_, _, _)
RaisesInTextOrder(tr, within, i) ==
    IF i > Len(tr.text) THEN << >>
    ELSE (IF i \in within /\ Named(tr.text[i]) THEN << tr.text[i].nm >> ELSE << >>)
         \o RaisesInTextOrder(tr, within, i + 1)

PlainRaises(tr, n) ==
    \A i \in InSubtree(tr, n) : tr.text[i].k = "raise" => Named(tr.text[i])

\* C6: detect_raises(node) lists the names of the raise statements in the order
\* of their source lines (here for nodes whose raise statements all name the
\* exception directly or call a plain name).
C6_RaisesInTextualOrder ==
    (call = "detect_raises" /\ pc = "done" /\ PlainRaises(tree, xnode))
    => result = RaisesInTextOrder(tree, InSubtree(tree, xnode), 1)

Mapped ==
    \/ call = "map_nodes" /\ pc = "done"
    \/ Inserting /\ pc # "call"

CountOf(entries, n) == Cardinality({i \in 1..Len(entries) : entries[i].node = n})

\* The block a statement stands in, as the parser built the tree.
BlockOf(tr, n) ==
    CHOOSE p \in 0..Len(tr.text) : \E i \in 1..Len(tr.body[p]) : tr.body[p][i] = n

\* C7: every function definition is listed once in the inventory: among the
\* functions exactly when its parent is no class, among the methods of class C
\* exactly when it is a statement of C's body; and class entries have no params.
C7_EachFunctionListedOnce ==
    Mapped =>
      /\ \A n \in 1..Len(tree.text) :
           NodeType(tree, n) = "FunctionDef"
           => /\ CountOf(Flatten(node_map), n) = 1
              /\ (CountOf(node_map.functions, n) = 1)
                   = (NodeType(tree, BlockOf(tree, n)) # "ClassDef")
              /\ \A c \in 1..Len(node_map.classes) :
                   (CountOf(node_map.classes[c].methods, n) = 1)
                     = (BlockOf(tree, n) = node_map.classes[c].node)
      /\ \A n \in 1..Len(tree.text) :
           NodeType(tree, n) = "ClassDef" => CountOf(node_map.classes, n) = 1
      /\ \A c \in 1..Len(node_map.classes) : node_map.classes[c].params = << >>

\* A class with a method, and a function two blocks down in another class.
C7_Witness ==
    /\ call = "map_nodes" /\ pc = "done"
    /\ \E c \in 1..Len(node_map.classes) : node_map.classes[c].methods # << >>
    /\ \E f \in 1..Len(node_map.functions) :
         /\ NodeType(tree, BlockOf(tree, node_map.functions[f].node)) = "If"
         /\ NodeType(tree, BlockOf(tree, BlockOf(tree, node_map.functions[f].node)))
              = "ClassDef"

Rewritten == Inserting /\ pc \in {"loop", "done"} /\ idx > 1
             /\ item = all_nodes[idx - 1] /\ ~Skipped(item)

\* C8: whenever an entry has been rewritten, the block that went in is the
\* synthesized one with every line prefixed by the leading spaces of the
\* entry's own header line plus 4.
C8_IndentOfOwnHeader ==
    Rewritten =>
      /\ indent = LeadingSpaces(code[item.node])
      /\ SubSeq(new_lines, insertion_index + 1, insertion_index + Len(doc_lines))
           = Indented(StripLast(StripFirst(build_docstring(format_type, item.name,
                                                           item.params))),
                      LeadingSpaces(code[item.node]))

\* C9: the entries are in strictly descending order of header line, and when
\* an entry is about to be processed the working buffer still equals the
\* original on every line up to the header of each entry not yet processed and
\* on that entry's docstring.
C9_BottomUpKeepsLineNumbers ==
    (Inserting /\ pc = "loop") =>
      /\ \A i, j \in 1..Len(all_nodes) : i < j => all_nodes[i].node > all_nodes[j].node
      /\ \A j \in idx..Len(all_nodes) :
           /\ SubSeq(new_lines, 1, all_nodes[j].node) = SubSeq(code, 1, all_nodes[j].node)
           /\ all_nodes[j].has_doc
              => SubSeq(new_lines, DocSpan(tree, all_nodes[j]).start + 1,
                        DocSpan(tree, all_nodes[j]).end)
                 = SubSeq(code, DocSpan(tree, all_nodes[j]).start + 1,
                          DocSpan(tree, all_nodes[j]).end)

\* A class whose docstring is about to be replaced after a method below it
\* has been rewritten.
C9_Witness ==
    /\ Looping /\ mode = "rewrite" /\ idx > 1
    /\ new_lines # code
    /\ NodeType(tree, all_nodes[idx].node) = "ClassDef"
    /\ all_nodes[idx].has_doc
    /\ ~Skipped(all_nodes[idx - 1])

\* C10: detect_raises never ends with an error, whatever the raised expression.
C10_DetectRaisesNeverFails ==
    call = "detect_raises" => pc # "AttributeError"

====
